---------------------------- MODULE Spec2Model ----------------------------
(***************************************************************************)
(* Model of the arduino-ffat-upload extension (src/unnamed/part_001, the   *)
(* extension source with the wear-leveling layer).                         *)
(*                                                                         *)
(* Conventions                                                             *)
(*  - A Buffer is a sequence of bytes 0..255; byte offset o of the code is *)
(*    index o+1 of the sequence.                                           *)
(*  - A JavaScript string is a sequence of one-character strings.          *)
(*  - A JavaScript number produced by parseInt is a record                 *)
(*    [nan, val]: NaN is [nan |-> TRUE, val |-> 0].                        *)
(*  - Every sequence built element by element is passed through SubSeq,  *)
(*    which makes the model checker store it as a finite sequence.         *)
(*  - A CRC accumulator is a 32-bit vector, a sequence of 32 bits with the *)
(*    least significant bit first: the values exceed the integer range of  *)
(*    the model checker, and only their bits are ever used.                *)
(***************************************************************************)
EXTENDS Integers, Sequences, FiniteSets, TLC

VARIABLES
    partitionSize,  \* argument of calculateWLLayout / wrapWithWearLeveling
    sectorSize,     \* argument of calculateWLLayout / wrapWithWearLeveling
    fatImage,       \* argument of wrapWithWearLeveling: the raw FAT image
    wlLayout,       \* value returned by calculateWLLayout ("none" before)
    wlResult,       \* outcome of wrapWithWearLeveling ("none" before)
    pc,             \* where doOperation stands (its pending await)
    doUpload,       \* argument of doOperation
    writerReady,    \* module variable writerReady
    terminal,       \* the "FFAT Upload" terminal: none, created, open, closed
    cnt,            \* waitForTerminal: cnt
    partitionData,  \* doOperation: partitionData, the text of the csv file
                    \* (empty again once the scan section is left: never read after)
    lastend,        \* doOperation: lastend, the end of the row read last
                    \* (back at its first value once the scan section is left)
    fsStart,        \* doOperation: fsStart
    fsEnd,          \* doOperation: fsEnd
    serialPort,     \* doOperation: serialPort
    network,        \* doOperation: network
    networkPort,    \* doOperation: networkPort
    imageFile,      \* doOperation: imageFile
    totalSize,      \* doOperation: totalSize of the data folder
    files,          \* the file system: path -> file
    calls,          \* the external tools spawned by runCommand, in order
    out,            \* errors, warnings and completions emitted, in order
    exitCode,       \* doOperation: exitCode, what runCommand last resolved to
    crcBuf,         \* argument of wlCrc32
    crcOut,         \* value returned by wlCrc32
    parseStr,       \* argument of fancyParseInt
    parseOut,       \* value returned by fancyParseInt
    operations      \* the doOperation calls started by the build command and
                    \* not awaited: each one's position, the exit code and
                    \* output of its mkfatfs process, the raw file it read

wlVars == <<partitionSize, sectorSize, fatImage, wlLayout, wlResult>>

termVars == <<writerReady, terminal, cnt>>

scanVars == <<partitionData, lastend, fsStart, fsEnd>>

portVars == <<serialPort, network, networkPort>>

ioVars == <<imageFile, totalSize, files, calls, out>>

opVars == <<pc, doUpload, termVars, scanVars, portVars, ioVars>>

fnVars == <<crcBuf, crcOut, parseStr, parseOut>>

vars == <<wlVars, opVars, exitCode, fnVars, operations>>

\* the value of a result variable before the call
None == [none |-> TRUE]

(***************************************************************************)
(* Bounds of the explored inputs.                                          *)
(***************************************************************************)
\* Largest number of whole sectors of a partition handed to the assembler.
MaxWrapSectors == 12
\* Largest number of whole sectors of a partition handed to the layout
\* calculator (besides the 0x170000 partition of the default ffat scheme).
MaxLayoutSectors == 40
\* Largest number of lines of a partition table handed to the scan alone.
MaxScanRows == 3
\* Largest number of lines of a partition file read by doOperation.
MaxFileRows == 2

MaxCrcLen == 3

(***************************************************************************)
(* Arithmetic helpers of the JavaScript runtime.                           *)
(***************************************************************************)
\* Math.floor(a / b) for b > 0
MathFloorDiv(a, b) == a \div b

\* Math.ceil(a / b) for b > 0
MathCeilDiv(a, b) == -((-a) \div b)

Min(a, b) == IF a <= b THEN a ELSE b

(***************************************************************************)
(* JavaScript numbers as produced by parseInt: an integer or NaN.          *)
(***************************************************************************)
Num(n) == [nan |-> FALSE, val |-> n]

NaN == [nan |-> TRUE, val |-> 0]

\* a + b
NumAdd(a, b) == IF a.nan \/ b.nan THEN NaN ELSE Num(a.val + b.val)

\* a - b
NumSub(a, b) == IF a.nan \/ b.nan THEN NaN ELSE Num(a.val - b.val)

\* k * a for an integer literal k
NumTimes(k, a) == IF a.nan THEN NaN ELSE Num(k * a.val)

\* a === 0
IsZero(a) == ~a.nan /\ a.val = 0

\* !a : zero and NaN are falsy
Falsy(a) == a.nan \/ a.val = 0

(***************************************************************************)
(* JavaScript strings: sequences of one-character strings.                 *)
(***************************************************************************)
LF == "\n"

CR == "\r"

WhiteSpace == {" ", "\t", LF, CR}

UpperTable ==
    [a |-> "A", b |-> "B", c |-> "C", d |-> "D", e |-> "E", f |-> "F",
     g |-> "G", h |-> "H", i |-> "I", j |-> "J", k |-> "K", l |-> "L",
     m |-> "M", n |-> "N", o |-> "O", p |-> "P", q |-> "Q", r |-> "R",
     s |-> "S", t |-> "T", u |-> "U", v |-> "V", w |-> "W", x |-> "X",
     y |-> "Y", z |-> "Z"]

\* str.toUpperCase()
ToUpperCase(str) ==
    SubSeq([i \in 1..Len(str) |->
              IF str[i] \in DOMAIN UpperTable THEN UpperTable[str[i]] ELSE str[i]],
           1, Len(str))

RECURSIVE TrimStart(_)
TrimStart(str) ==
    IF str # <<>> /\ Head(str) \in WhiteSpace THEN TrimStart(Tail(str)) ELSE str

RECURSIVE TrimEnd(_)
TrimEnd(str) ==
    IF str # <<>> /\ str[Len(str)] \in WhiteSpace
    THEN TrimEnd(SubSeq(str, 1, Len(str) - 1))
    ELSE str

\* str.trim()
Trim(str) == TrimEnd(TrimStart(str))

\* whether pat occurs in str at 1-based position i
MatchesAt(str, pat, i) ==
    /\ i + Len(pat) - 1 <= Len(str)
    /\ \A k \in 1..Len(pat) : str[i + k - 1] = pat[k]

\* str.indexOf(pat): 0-based index of the first occurrence, -1 if none
IndexOf(str, pat) ==
    LET hits == {i \in 1..Len(str) : MatchesAt(str, pat, i)}
    IN  IF hits = {} THEN -1
        ELSE (CHOOSE i \in hits : \A j \in hits : i <= j) - 1

\* str.substring(start, end) for 0 <= start <= end <= length
Substring(str, start, end) == SubSeq(str, start + 1, end)

\* str.split(sep) for a one-character separator: never empty
RECURSIVE Split(_, _)
Split(str, sep) ==
    LET at == IndexOf(str, <<sep>>)
    IN  IF at < 0 THEN <<str>>
        ELSE <<Substring(str, 0, at)>>
               \o Split(Substring(str, at + 1, Len(str)), sep)

\* value of a digit character, 99 for any other character
DigitTable ==
    [a |-> 10, b |-> 11, c |-> 12, d |-> 13, e |-> 14, f |-> 15,
     A |-> 10, B |-> 11, C |-> 12, D |-> 13, E |-> 14, F |-> 15]

DigitValue(ch) ==
    IF ch \in {"0", "1", "2", "3", "4", "5", "6", "7", "8", "9"}
    THEN CHOOSE d \in 0..9 : ch = <<"0", "1", "2", "3", "4", "5", "6", "7", "8", "9">>[d + 1]
    ELSE IF ch \in DOMAIN DigitTable THEN DigitTable[ch] ELSE 99

\* the value of the longest prefix of radix-R digits; NaN when it is empty
RECURSIVE ParseDigits(_, _, _, _)
ParseDigits(str, radix, acc, seen) ==
    IF str # <<>> /\ DigitValue(Head(str)) < radix
    THEN ParseDigits(Tail(str), radix, acc * radix + DigitValue(Head(str)), TRUE)
    ELSE IF seen THEN Num(acc) ELSE NaN

\* parseInt(str, radix); radix 0 stands for an omitted radix
parseInt(str, radix) ==
    LET s0       == TrimStart(str)
        negative == s0 # <<>> /\ Head(s0) = "-"
        s1       == IF s0 # <<>> /\ Head(s0) \in {"+", "-"} THEN Tail(s0) ELSE s0
        hexPfx   == /\ radix \in {0, 16}
                    /\ Len(s1) >= 2
                    /\ s1[1] = "0"
                    /\ s1[2] \in {"x", "X"}
        r        == IF hexPfx THEN 16 ELSE IF radix = 0 THEN 10 ELSE radix
        s2       == IF hexPfx THEN Tail(Tail(s1)) ELSE s1
        parsed   == ParseDigits(s2, r, 0, FALSE)
    IN  IF negative THEN NumTimes(-1, parsed) ELSE parsed

(***************************************************************************)
(* fancyParseInt                                                           *)
(***************************************************************************)
\* (mutant) the unit suffixes tested before the hex marker
fancyParseIntUnitFirst(str) ==
    LET up == Trim(ToUpperCase(str)) IN
    IF up = <<>> THEN Num(0)
    ELSE IF IndexOf(up, <<"K">>) >= 0
         THEN NumTimes(1024, parseInt(Substring(up, 0, IndexOf(up, <<"K">>)), 0))
    ELSE IF IndexOf(up, <<"M">>) >= 0
         THEN NumTimes(1024 * 1024,
                       parseInt(Substring(up, 0, IndexOf(up, <<"M">>)), 0))
    ELSE IF IndexOf(up, <<"0", "X">>) >= 0 THEN parseInt(str, 16)
    ELSE parseInt(str, 0)

fancyParseInt(str) ==
    LET up == Trim(ToUpperCase(str)) IN
    IF up = <<>> THEN Num(0)
    ELSE IF IndexOf(up, <<"0", "X">>) >= 0 THEN parseInt(str, 16)
    ELSE IF IndexOf(up, <<"K">>) >= 0
         THEN NumTimes(1024, parseInt(Substring(up, 0, IndexOf(up, <<"K">>)), 0))
    ELSE IF IndexOf(up, <<"M">>) >= 0
         THEN NumTimes(1024 * 1024,
                       parseInt(Substring(up, 0, IndexOf(up, <<"M">>)), 0))
    ELSE parseInt(str, 0)

(***************************************************************************)
(* The partition scan of doOperation.                                      *)
(***************************************************************************)
\* 0x8000 + 0xc00
FirstPartitionOffset == 32768 + 3072

\* the line up to its first '#'
StripComment(line) ==
    IF IndexOf(line, <<"#">>) >= 0
    THEN Substring(line, 0, IndexOf(line, <<"#">>))
    ELSE line

\* (mutant) the first FAT row is kept
ScanRowFirstWins(line, st) ==
    LET partitionEntry == Split(StripComment(line), ",") IN
    IF Len(partitionEntry) > 4
    THEN LET offset0     == fancyParseInt(partitionEntry[4])
             length      == fancyParseInt(partitionEntry[5])
             offset      == IF IsZero(offset0) THEN st.lastend ELSE offset0
             partsubtype == Trim(ToUpperCase(partitionEntry[3]))
         IN  IF partsubtype = <<"F", "A", "T">> /\ IsZero(st.fsStart)
             THEN [lastend |-> NumAdd(offset, length),
                   fsStart |-> offset,
                   fsEnd   |-> NumAdd(offset, length)]
             ELSE [st EXCEPT !.lastend = NumAdd(offset, length)]
    ELSE st

\* (mutant) the cursor moves on by the size alone, whatever the offset
ScanRowCursorIgnoresOffset(line, st) ==
    LET partitionEntry == Split(StripComment(line), ",") IN
    IF Len(partitionEntry) > 4
    THEN LET offset0     == fancyParseInt(partitionEntry[4])
             length      == fancyParseInt(partitionEntry[5])
             offset      == IF IsZero(offset0) THEN st.lastend ELSE offset0
             partsubtype == Trim(ToUpperCase(partitionEntry[3]))
         IN  IF partsubtype = <<"F", "A", "T">>
             THEN [lastend |-> NumAdd(st.lastend, length),
                   fsStart |-> offset,
                   fsEnd   |-> NumAdd(offset, length)]
             ELSE [st EXCEPT !.lastend = NumAdd(st.lastend, length)]
    ELSE st

\* one iteration of the loop over the lines; st holds lastend, fsStart, fsEnd
ScanRow(line, st) ==
    LET partitionEntry == Split(StripComment(line), ",") IN
    IF Len(partitionEntry) > 4
    THEN LET offset0     == fancyParseInt(partitionEntry[4])
             length      == fancyParseInt(partitionEntry[5])
             offset      == IF IsZero(offset0) THEN st.lastend ELSE offset0
             partsubtype == Trim(ToUpperCase(partitionEntry[3]))
         IN  IF partsubtype = <<"F", "A", "T">>
             THEN [lastend |-> NumAdd(offset, length),
                   fsStart |-> offset,
                   fsEnd   |-> NumAdd(offset, length)]
             ELSE [st EXCEPT !.lastend = NumAdd(offset, length)]
    ELSE st

RECURSIVE ScanLoop(_, _, _)
ScanLoop(lines, i, st) ==
    IF i > Len(lines) \/ st.lastend.nan \notin BOOLEAN
    THEN st
    ELSE ScanLoop(lines, i + 1, ScanRow(lines[i], st))

\* the loop over partitionData.split("\n")
ScanPartitions(text) ==
    ScanLoop(Split(text, LF), 1,
             [lastend |-> Num(FirstPartitionOffset),
              fsStart |-> Num(0),
              fsEnd   |-> Num(0)])

\* (mutant) only a value that is not a number is reported
FatNotFoundNaNOnly(start, end) == start.nan \/ end.nan

\* !fsStart || !fsEnd
FatNotFound(start, end) == Falsy(start) \/ Falsy(end)

(***************************************************************************)
(* Buffer primitives (Node.js Buffer).                                     *)
(***************************************************************************)
\* Buffer.alloc(size, fill)
BufferAlloc(size, fill) == SubSeq([i \in 1..size |-> fill], 1, size)

\* source.copy(target, targetStart): copies as many bytes as fit.
BufferCopy(source, target, targetStart) ==
    SubSeq([i \in 1..Len(target) |->
              IF i - 1 >= targetStart /\ i - 1 - targetStart < Len(source)
              THEN source[i - targetStart]
              ELSE target[i]], 1, Len(target))

\* buf.subarray(start, end)
BufferSubarray(buf, start, end) == SubSeq(buf, start + 1, end)

\* the four little-endian bytes of an unsigned 32-bit integer
U32LEBytes(value) ==
    SubSeq([k \in 1..4 |-> (value \div (256 ^ (k - 1))) % 256], 1, 4)

\* buf.writeUInt32LE(value, offset)
WriteUInt32LE(buf, value, offset) == BufferCopy(U32LEBytes(value), buf, offset)

(***************************************************************************)
(* wlCrc32: reflected CRC-32, seed 0xFFFFFFFF, no final XOR.               *)
(***************************************************************************)
\* bit k (0 = least significant) of a byte
ByteBit(b, k) == (b \div (2 ^ k)) % 2

Xor1(a, b) == IF a = b THEN 0 ELSE 1

\* 0xEDB88320, least significant bit first
CrcPoly ==
    <<0,0,0,0, 0,1,0,0, 1,1,0,0, 0,0,0,1, 0,0,0,1, 1,1,0,1, 1,0,1,1, 0,1,1,1>>

\* 0xFFFFFFFF
CrcSeed == SubSeq([i \in 1..32 |-> 1], 1, 32)

\* crc ^= byte
CrcXorByte(crc, byte) ==
    SubSeq([i \in 1..32 |->
              IF i <= 8 THEN Xor1(crc[i], ByteBit(byte, i - 1)) ELSE crc[i]], 1, 32)

\* crc >>> 1
CrcShr1(crc) == Append(Tail(crc), 0)

\* (mutant) the polynomial never folded in: a plain shift
CrcRoundShiftOnly(crc) == CrcShr1(crc)

\* crc = (crc & 1) ? ((crc >>> 1) ^ 0xEDB88320) : (crc >>> 1)
CrcRound(crc) ==
    IF crc[1] = 1
    THEN LET s == CrcShr1(crc)
         IN  SubSeq([i \in 1..32 |-> Xor1(s[i], CrcPoly[i])], 1, 32)
    ELSE CrcShr1(crc)

\* the inner loop: eight rounds
CrcByte(crc, byte) ==
    CrcRound(CrcRound(CrcRound(CrcRound(
    CrcRound(CrcRound(CrcRound(CrcRound(CrcXorByte(crc, byte)))))))))

\* the outer loop over the bytes; the accumulator always holds 32 bits
RECURSIVE CrcLoop(_, _, _)
CrcLoop(buf, i, crc) ==
    IF i > Len(buf) \/ Len(crc) # 32
    THEN crc
    ELSE CrcLoop(buf, i + 1, CrcByte(crc, buf[i]))

\* (mutant) the conventional CRC-32: the accumulator complemented at the end
wlCrc32Complemented(buf) ==
    LET crc == CrcLoop(buf, 1, CrcSeed)
    IN  SubSeq([i \in 1..32 |-> 1 - crc[i]], 1, 32)

wlCrc32(buf) == CrcLoop(buf, 1, CrcSeed)

\* the four little-endian bytes of a 32-bit vector
Bits32LEBytes(bits) ==
    SubSeq([k \in 1..4 |->
        bits[8*(k-1) + 1]       + 2   * bits[8*(k-1) + 2]
      + 4  * bits[8*(k-1) + 3]  + 8   * bits[8*(k-1) + 4]
      + 16 * bits[8*(k-1) + 5]  + 32  * bits[8*(k-1) + 6]
      + 64 * bits[8*(k-1) + 7]  + 128 * bits[8*(k-1) + 8]], 1, 4)

\* buf.writeUInt32LE(crc, offset) for a CRC value
WriteCrc32LE(buf, crc, offset) == BufferCopy(Bits32LEBytes(crc), buf, offset)

(***************************************************************************)
(* calculateWLLayout                                                       *)
(***************************************************************************)
\* sizeof(wl_state_t)
WL_STATE_HEADER_SIZE == 64

\* sizeof(wl_config_t)
WL_CONFIG_SIZE == 36

\* (mutant) the config region taken as one sector, whatever its size
CfgSizeOneSector(sSize) == sSize

\* cfg_size: wl_config_t aligned up to a sector boundary
CfgSize(sSize) == MathCeilDiv(WL_CONFIG_SIZE, sSize) * sSize

\* (mutant) the state region sized for the position table alone
StateSizeNoHeader(pSize, sSize) ==
    MathCeilDiv(MathFloorDiv(pSize, sSize) * 4, sSize) * sSize

\* state size: header plus one uint32 per sector of the partition, aligned up
StateSize(pSize, sSize) ==
    LET numSectors   == MathFloorDiv(pSize, sSize)
        stateRawSize == WL_STATE_HEADER_SIZE + numSectors * 4
    IN  MathCeilDiv(stateRawSize, sSize) * sSize

\* (mutant) the usable area without the dummy sector reserved
FlashSizeNoDummy(addrState1, sSize) == MathFloorDiv(addrState1, sSize) * sSize

\* flash_size: the usable FAT data area
FlashSize(addrState1, sSize) == (MathFloorDiv(addrState1, sSize) - 1) * sSize

\* (mutant) max_pos counting the data sectors only
MaxPosNoDummy(flashSize, sSize) == MathFloorDiv(flashSize, sSize)

\* max_pos: data sectors + 1 dummy sector
MaxPos(flashSize, sSize) == MathFloorDiv(flashSize, sSize) + 1

calculateWLLayout(pSize, sSize) ==
    LET cfgSize      == CfgSize(sSize)
        stateSize    == StateSize(pSize, sSize)
        addrCfg      == pSize - cfgSize
        addrState1   == pSize - cfgSize - stateSize * 2
        addrState2   == pSize - cfgSize - stateSize
        flashSize    == FlashSize(addrState1, sSize)
        maxPos       == MaxPos(flashSize, sSize)
    IN  [stateSize |-> stateSize, cfgSize |-> cfgSize, flashSize |-> flashSize,
         maxPos |-> maxPos, addrCfg |-> addrCfg, addrState1 |-> addrState1,
         addrState2 |-> addrState2]

(***************************************************************************)
(* wrapWithWearLeveling                                                    *)
(***************************************************************************)
\* (mutant) a shorter raw image is accepted as well
SizeMatchesAtMost(img, flashSize) == Len(img) <= flashSize

\* the guard of the SizeMismatch throw, negated
SizeMatches(img, flashSize) == Len(img) = flashSize

\* (mutant) the partition image allocated without the erased-flash fill
AllocImageZero(pSize) == BufferAlloc(pSize, 0)

\* the full partition image filled with 0xFF (erased flash)
AllocImage(pSize) == BufferAlloc(pSize, 255)

\* (mutant) the FAT data copied to physical sector 0
CopyFatImageAtZero(img, image, sSize) == BufferCopy(img, image, 0)

\* fatImage.copy(image, sectorSize): physical sector 0 is the dummy sector
CopyFatImage(img, image, sSize) == BufferCopy(img, image, sSize)

\* the eight fields of wl_config_t, crc field still zero
WLConfigFields(pSize, sSize) ==
    LET b0 == BufferAlloc(WL_CONFIG_SIZE, 0)
        b1 == WriteUInt32LE(b0, 0, 0)           \* start_addr
        b2 == WriteUInt32LE(b1, pSize, 4)       \* full_mem_size
        b3 == WriteUInt32LE(b2, sSize, 8)       \* page_size
        b4 == WriteUInt32LE(b3, sSize, 12)      \* sector_size
        b5 == WriteUInt32LE(b4, 16, 16)         \* updaterate
        b6 == WriteUInt32LE(b5, 16, 20)         \* wr_size
        b7 == WriteUInt32LE(b6, 2, 24)          \* version
    IN  WriteUInt32LE(b7, 32, 28)               \* temp_buff_size

\* CRC of the first 32 bytes of wl_config_t
ConfigCrc(configFields) == wlCrc32(BufferSubarray(configFields, 0, 32))

\* (mutant) the crc field of wl_config_t never written
WLConfigBufNoCrc(pSize, sSize) == WLConfigFields(pSize, sSize)

\* wl_config_t: 36 bytes
WLConfigBuf(pSize, sSize) ==
    LET fields == WLConfigFields(pSize, sSize)
    IN  WriteCrc32LE(fields, ConfigCrc(fields), 32)

\* wl_state_t header: 64 bytes
WLStateHeader(maxPos, sSize, deviceId) ==
    LET s0 == BufferAlloc(WL_STATE_HEADER_SIZE, 0)
        s1 == WriteUInt32LE(s0, 0, 0)           \* pos
        s2 == WriteUInt32LE(s1, maxPos, 4)      \* max_pos
        s3 == WriteUInt32LE(s2, 0, 8)           \* move_count
        s4 == WriteUInt32LE(s3, 0, 12)          \* access_count
        s5 == WriteUInt32LE(s4, 16, 16)         \* max_count
        s6 == WriteUInt32LE(s5, sSize, 20)      \* block_size
        s7 == WriteUInt32LE(s6, 2, 24)          \* version
        s8 == WriteCrc32LE(s7, deviceId, 28)    \* device_id
        stateCrc == wlCrc32(BufferSubarray(s8, 0, 60))
    IN  WriteCrc32LE(s8, stateCrc, 60)

\* (mutant) only the first state copy written
WriteStateCopiesFirstOnly(stateHeader, image, addrState1, addrState2) ==
    BufferCopy(stateHeader, image, addrState1)

\* state1 and state2: the same 64-byte header, the position tables untouched
WriteStateCopies(stateHeader, image, addrState1, addrState2) ==
    BufferCopy(stateHeader, BufferCopy(stateHeader, image, addrState1), addrState2)

\* The value returned (threw = FALSE), or the exception thrown.
wrapWithWearLeveling(img, pSize, sSize) ==
    LET L == calculateWLLayout(pSize, sSize) IN
    IF ~SizeMatches(img, L.flashSize)
    THEN [threw |-> TRUE, error |-> "SizeMismatch", image |-> <<>>]
    ELSE
      LET image0      == AllocImage(pSize)
          image1      == CopyFatImage(img, image0, sSize)
          configBuf   == WLConfigBuf(pSize, sSize)
          image2      == BufferCopy(configBuf, image1, L.addrCfg)
          deviceId    == ConfigCrc(configBuf)
          stateHeader == WLStateHeader(L.maxPos, sSize, deviceId)
          image3      == WriteStateCopies(stateHeader, image2,
                                          L.addrState1, L.addrState2)
      IN  [threw |-> FALSE, error |-> "", image |-> image3]

(***************************************************************************)
(* Inputs of the layout calculator and of the assembler.                   *)
(***************************************************************************)
SectorSizes == {32, 64, 4096}

\* a partition of n whole sectors plus a remainder
PartitionSizesUpTo(sSize, maxSectors) ==
    {n * sSize + r : n \in (-2)..maxSectors, r \in {0, 1, sSize - 1}}

\* 0x170000 (368 sectors of 4096), the ffat partition of the README example
DefaultFfatSize == 368 * 4096

\* deterministic test payloads: a ramp and a constant fill
RawPattern(kind, len) ==
    SubSeq([i \in 1..len |-> IF kind = 0 THEN 0 ELSE (kind + 7 * i) % 256], 1, len)

RawPatternKinds == {0, 3}

\* lengths offered to the assembler: the expected one and its neighbours
RawLengths(pSize, sSize) ==
    LET f == calculateWLLayout(pSize, sSize).flashSize
    IN  {n \in {0, f - 1, f, f + 1} : n >= 0}

(***************************************************************************)
(* Partition tables: every sequence of lines of a pool, joined by "\n".    *)
(***************************************************************************)
RECURSIVE JoinLines(_)
JoinLines(lines) ==
    IF lines = <<>> THEN <<>>
    ELSE IF Len(lines) = 1 THEN lines[1]
    ELSE lines[1] \o <<LF>> \o JoinLines(Tail(lines))

TextsOf(linePool, maxRows) ==
    UNION {{JoinLines(ls) : ls \in [1..n -> linePool]} : n \in 0..maxRows}

\* lines offered to the scan alone: FAT rows with explicit, implicit and zero
\* offsets, other rows, an uncommented header, comments, a short row, a
\* negative size
ScanLinePool ==
    {<<"n", ",", "d", ",", "f", "a", "t", ",", "0", "x", "9", "0", "0", "0", ",", "0", "x", "5", "0", "0", "0">>,
     <<"n", ",", "d", ",", " ", "F", "a", "t", " ", ",", ",", "1", "6", "K">>,
     <<"n", ",", "d", ",", "F", "A", "T", ",", "0", "x", "2", "0", "0", "0", "0", ",">>,
     <<"n", ",", "d", ",", "n", "v", "s", ",", "0", "x", "9", "0", "0", "0", ",", "0", "x", "5", "0", "0", "0", CR>>,
     <<"n", ",", "d", ",", "n", "v", "s", ",", ",", "1", "M">>,
     <<"N", ",", "T", ",", "S", ",", "O", "f", "f", "s", "e", "t", ",", "S", "i", "z", "e", ",", "F">>,
     <<"#", "n", ",", "d", ",", "f", "a", "t", ",", "0", "x", "9", "0", "0", "0", ",", "0", "x", "5", "0", "0", "0">>,
     <<"n", ",", "d", ",", "f", "a", "t", ",", "0", "x", "9", "0", "0", "0">>,
     <<"n", ",", "d", ",", "f", "a", "t", "x", ",", ",", "4", "0", "9", "6", " ", "#", " ", "c", ",", "c">>,
     <<"n", ",", "d", ",", "n", "v", "s", ",", "0", "x", "9", "0", "0", "0", ",", "-", "0", "x", "9", "0", "0", "0">>,
     <<"n", ",", "d", ",", "f", "a", "t", ",", "0", ",", "2", "0", "K", ",", "f">>}

\* lines of the partition files read by doOperation: FAT partitions of
\* 20K, 16K and 4K, another row, an uncommented header, a commented row
FileLinePool ==
    {<<"n", ",", "d", ",", "f", "a", "t", ",", "0", "x", "9", "0", "0", "0", ",", "2", "0", "K">>,
     <<"n", ",", "d", ",", " ", "F", "a", "t", " ", ",", ",", "1", "6", "K">>,
     <<"n", ",", "d", ",", "n", "v", "s", ",", "0", "x", "9", "0", "0", "0", ",", "0", "x", "5", "0", "0", "0">>,
     <<"N", ",", "T", ",", "S", ",", "O", "f", "f", "s", "e", "t", ",", "S", "i", "z", "e", ",", "F">>,
     <<"n", ",", "d", ",", "f", "a", "t", ",", ",", "4", "0", "9", "6">>,
     <<"#", "n", ",", "d", ",", "f", "a", "t", ",", "0", "x", "9", "0", "0", "0", ",", "2", "0", "K">>,
     <<"n", ",", "d", ",", "f", "a", "t", ",", "0", "x", "9", "0", "0", "0", ",", "0", "x", "5", "0", "0", "0", "K">>}

(***************************************************************************)
(* The state of an extension that runs no operation (the function specs).  *)
(***************************************************************************)
NoFile == [exists |-> FALSE, data |-> <<>>]

SketchImage == <<"sketch", "mkfatfs.bin">>

TempImage == <<"tmp", "ffat-random.ffat.bin">>

\* imageFile + ".raw"
RawOf(path) == Append(path, ".raw")

Paths == {SketchImage, TempImage, RawOf(SketchImage), RawOf(TempImage)}

\* the build commands that can be pending together
Commands == {1, 2}

\* a command that has not been invoked
NoOperation ==
    [pc |-> "idle", exitCode |-> None, written |-> NoFile, rawData |-> NoFile,
     out |-> ""]

OpQuiet ==
    /\ operations = [k \in Commands |-> NoOperation]
    /\ doUpload = FALSE
    /\ writerReady = FALSE
    /\ terminal = "none"
    /\ cnt = 0
    /\ serialPort = <<>>
    /\ network = FALSE
    /\ networkPort = 0
    /\ imageFile = <<>>
    /\ totalSize = 0
    /\ files = [p \in Paths |-> NoFile]
    /\ calls = <<>>
    /\ out = <<>>
    /\ exitCode = None

WLQuiet ==
    /\ partitionSize = 0
    /\ sectorSize = 4096
    /\ fatImage = <<>>
    /\ wlLayout = None
    /\ wlResult = None

FnQuiet ==
    /\ crcBuf = <<>>
    /\ crcOut = None
    /\ parseStr = <<>>
    /\ parseOut = None

(***************************************************************************)
(* SpecScan: the partition scan of doOperation applied to bounded tables.  *)
(***************************************************************************)
InitScan ==
    /\ pc = "scan"
    /\ partitionData \in TextsOf(ScanLinePool, MaxScanRows)
    /\ lastend = Num(FirstPartitionOffset)
    /\ fsStart = Num(0)
    /\ fsEnd = Num(0)
    /\ OpQuiet
    /\ WLQuiet
    /\ FnQuiet

\* the loop over the lines and the check that follows it
RunPartitionScan ==
    /\ pc = "scan"
    /\ LET st == ScanPartitions(partitionData) IN
        /\ lastend' = st.lastend
        /\ fsStart' = st.fsStart
        /\ fsEnd' = st.fsEnd
        /\ pc' = IF FatNotFound(st.fsStart, st.fsEnd) THEN "notfound" ELSE "found"
    /\ UNCHANGED <<wlVars, doUpload, termVars, partitionData, portVars, ioVars>>
    /\ UNCHANGED <<exitCode, fnVars, operations>>

NextScan == RunPartitionScan

SpecScan == InitScan /\ [][NextScan]_vars

(***************************************************************************)
(* SpecLayout: calculateWLLayout applied to bounded inputs.                *)
(***************************************************************************)
InitLayout ==
    /\ sectorSize \in SectorSizes
    /\ partitionSize \in
          PartitionSizesUpTo(sectorSize, MaxLayoutSectors) \cup {DefaultFfatSize}
    /\ fatImage = <<>>
    /\ wlLayout = None
    /\ wlResult = None
    /\ pc = "call"
    /\ partitionData = <<>>
    /\ lastend = Num(FirstPartitionOffset)
    /\ fsStart = Num(0)
    /\ fsEnd = Num(0)
    /\ OpQuiet
    /\ FnQuiet

CallCalculateWLLayout ==
    /\ wlLayout = None
    /\ wlLayout' = calculateWLLayout(partitionSize, sectorSize)
    /\ UNCHANGED <<partitionSize, sectorSize, fatImage, wlResult, opVars>>
    /\ UNCHANGED <<exitCode, fnVars, operations>>

NextLayout == CallCalculateWLLayout

SpecLayout == InitLayout /\ [][NextLayout]_vars

(***************************************************************************)
(* SpecWrap: wrapWithWearLeveling applied to bounded inputs.               *)
(***************************************************************************)
InitWrap ==
    /\ sectorSize \in SectorSizes
    /\ partitionSize \in
          {p \in PartitionSizesUpTo(sectorSize, MaxWrapSectors) : p >= 0}
    /\ fatImage \in
          {RawPattern(k, n) : k \in RawPatternKinds,
                              n \in RawLengths(partitionSize, sectorSize)}
    /\ wlLayout = None
    /\ wlResult = None
    /\ pc = "call"
    /\ partitionData = <<>>
    /\ lastend = Num(FirstPartitionOffset)
    /\ fsStart = Num(0)
    /\ fsEnd = Num(0)
    /\ OpQuiet
    /\ FnQuiet

CallWrapWithWearLeveling ==
    /\ wlResult = None
    /\ wlResult' = wrapWithWearLeveling(fatImage, partitionSize, sectorSize)
    /\ wlLayout' = calculateWLLayout(partitionSize, sectorSize)
    /\ UNCHANGED <<partitionSize, sectorSize, fatImage, opVars>>
    /\ UNCHANGED <<exitCode, fnVars, operations>>

NextWrap == CallWrapWithWearLeveling

SpecWrap == InitWrap /\ [][NextWrap]_vars

(***************************************************************************)
(* SpecCrc: wlCrc32 applied to bounded buffers.                            *)
(***************************************************************************)
CrcBytes == {0, 1, 97, 128, 255}

\* the buffers of at most n bytes of CrcBytes
RECURSIVE BuffersUpTo(_)
BuffersUpTo(n) ==
    IF n = 0 THEN {<<>>}
    ELSE LET shorter == BuffersUpTo(n - 1)
         IN  shorter \cup {Append(b, x) : b \in shorter, x \in CrcBytes}

\* "123456789"
CheckString == <<49, 50, 51, 52, 53, 54, 55, 56, 57>>

\* 32 zero bytes
ZeroBlock == BufferAlloc(32, 0)

CrcInputs == BuffersUpTo(MaxCrcLen) \cup {CheckString, ZeroBlock}

InitCrc ==
    /\ pc = "call"
    /\ crcBuf \in CrcInputs
    /\ crcOut = None
    /\ parseStr = <<>>
    /\ parseOut = None
    /\ partitionData = <<>>
    /\ lastend = Num(FirstPartitionOffset)
    /\ fsStart = Num(0)
    /\ fsEnd = Num(0)
    /\ OpQuiet
    /\ WLQuiet

CallWlCrc32 ==
    /\ crcOut = None
    /\ crcOut' = wlCrc32(crcBuf)
    /\ UNCHANGED <<wlVars, opVars, exitCode, crcBuf, parseStr, parseOut, operations>>

NextCrc == CallWlCrc32

SpecCrc == InitCrc /\ [][NextCrc]_vars

(***************************************************************************)
(* SpecParse: fancyParseInt applied to a pool of tokens.                   *)
(***************************************************************************)
TokenBodies ==
    {<<"0", "x", "9", "0", "0", "0">>,
     <<"1", "6", "K">>,
     <<"4", "M">>,
     <<>>,
     <<"1", "0", "0", "0">>,
     <<"1", "6", "k">>,
     <<"4", "m">>,
     <<"0", "X", "1", "f">>,
     <<"0", "x", "1", "K">>,
     <<"0", "x", "4", "M">>,
     <<"K">>,
     <<"1", "K", "M">>,
     <<"1", "M", "K">>,
     <<"1", "2", "a", "b">>,
     <<"S", "i", "z", "e">>,
     <<"0">>,
     <<"0", "0", "7">>,
     <<"0", "x", "g">>,
     <<"-", "0", "x", "1", "0">>,
     <<"-", "2", "K">>,
     <<"+", "5">>,
     <<"1", " ", "K">>,
     <<"a", "0", "x", "1">>}

TokenPrefixes == {<<>>, <<" ">>, <<" ", " ">>}

TokenSuffixes == {<<>>, <<" ">>, <<CR>>}

ParseTokens ==
    {pre \o body \o suf :
        pre \in TokenPrefixes, body \in TokenBodies, suf \in TokenSuffixes}

InitParse ==
    /\ pc = "call"
    /\ parseStr \in ParseTokens
    /\ parseOut = None
    /\ crcBuf = <<>>
    /\ crcOut = None
    /\ partitionData = <<>>
    /\ lastend = Num(FirstPartitionOffset)
    /\ fsStart = Num(0)
    /\ fsEnd = Num(0)
    /\ OpQuiet
    /\ WLQuiet

CallFancyParseInt ==
    /\ parseOut = None
    /\ parseOut' = fancyParseInt(parseStr)
    /\ UNCHANGED <<wlVars, opVars, exitCode, crcBuf, crcOut, parseStr, operations>>

NextParse == CallFancyParseInt

SpecParse == InitParse /\ [][NextParse]_vars

(***************************************************************************)
(* Spec: one run of doOperation, from the command to its return.           *)
(*                                                                         *)
(* pc names the await the operation is suspended at.  What the operation   *)
(* reads from its environment (the Arduino context, the file system, the   *)
(* user, the exit of a spawned tool) is chosen when it is read.            *)
(***************************************************************************)
DefaultSectorSize == 4096

\* a build left in the sketch folder by an earlier run
OldImage == [exists |-> TRUE, data |-> <<79, 76, 68>>]

WriteFile(fs, path, data) == [fs EXCEPT ![path] = [exists |-> TRUE, data |-> data]]

\* try { fs.unlinkSync(path); } catch { }
Unlink(fs, path) == [fs EXCEPT ![path] = NoFile]

\* the exit code handed to the 'close' listener: a number, or null after a signal
ExitOk == [signal |-> FALSE, code |-> 0]

ExitError == [signal |-> FALSE, code |-> 1]

ExitSignal == [signal |-> TRUE, code |-> 0]

ExitCodes == {ExitOk, ExitError, ExitSignal}

\* if (exitCode)
ExitTruthy(exit) == ~exit.signal /\ exit.code # 0

\* what the generator may leave at the raw image path
GeneratorWrites(flashSize) ==
    {NoFile} \cup
    {[exists |-> TRUE, data |-> RawPattern(3, n)] :
        n \in {m \in {0, flashSize - 1, flashSize, flashSize + 1} : m >= 0}}

PartitionFiles == TextsOf(FileLinePool, MaxFileRows)

PortAddresses == {<<"C", "O", "M", "3">>}

\* what the user types into the input box; given = FALSE when dismissed
ManualEntries ==
    {[given |-> FALSE, text |-> <<>>],
     [given |-> TRUE, text |-> <<>>],
     [given |-> TRUE, text |-> <<" ">>],
     [given |-> TRUE, text |-> <<" ", "C", "O", "M", "1", "1">>]}

\* port.properties.port: 0 stands for a missing or empty value
NetPortChoices == {0, 3232}

\* sizes of the data folder: as many bytes as the usable area has (none when
\* it has none), or one byte more
DataSizes(flashSize) ==
    LET fits == IF flashSize > 0 THEN flashSize ELSE 0 IN {fits, fits + 1}

\* (mutant) data that fills the usable area exactly is reported as well
DataExceedsOrFills(total, flashSize) == total >= flashSize

\* totalSize > wlLayout.flashSize
DataExceeds(total, flashSize) == total > flashSize

Emit(msg) == out' = Append(out, msg)

Init ==
    /\ pc = "idle"
    /\ doUpload = FALSE
    /\ terminal \in {"none", "open"}
    /\ writerReady = (terminal = "open")
    /\ cnt = 0
    /\ partitionData = <<>>
    /\ lastend = Num(FirstPartitionOffset)
    /\ fsStart = Num(0)
    /\ fsEnd = Num(0)
    /\ serialPort = <<>>
    /\ network = FALSE
    /\ networkPort = 0
    /\ imageFile = <<>>
    /\ totalSize = 0
    /\ files = [p \in Paths |-> IF p = SketchImage THEN OldImage ELSE NoFile]
    /\ calls = <<>>
    /\ out = <<>>
    /\ WLQuiet
    /\ exitCode = None
    /\ FnQuiet
    /\ operations = [k \in Commands |-> NoOperation]

\* the command handler calls doOperation; board details missing: return
CommandWithoutBoard ==
    /\ pc = "idle"
    /\ \E up \in BOOLEAN : doUpload' = up
    /\ Emit("ERR_BOARD_DETAILS")
    /\ pc' = "done"
    /\ UNCHANGED <<wlVars, termVars, scanVars, portVars, imageFile, totalSize,
                   files, calls>>
    /\ UNCHANGED <<exitCode, fnVars, operations>>

\* the command handler calls doOperation, which calls waitForTerminal:
\* makeTerminal shows the live terminal or creates one
CommandStarts ==
    /\ pc = "idle"
    /\ \E up \in BOOLEAN : doUpload' = up
    /\ terminal' = IF terminal \in {"created", "open"} THEN terminal ELSE "created"
    /\ cnt' = 0
    /\ pc' = "waitTerminal"
    /\ UNCHANGED <<wlVars, writerReady, scanVars, portVars, ioVars>>
    /\ UNCHANGED <<exitCode, fnVars, operations>>

\* pty.open
PtyOpen ==
    /\ pc \in {"idle", "waitTerminal"}
    /\ terminal = "created"
    /\ terminal' = "open"
    /\ writerReady' = TRUE
    /\ UNCHANGED <<wlVars, pc, doUpload, cnt, scanVars, portVars, ioVars>>
    /\ UNCHANGED <<exitCode, fnVars, operations>>

\* pty.close
PtyClose ==
    /\ pc \in {"idle", "waitTerminal"}
    /\ terminal = "open"
    /\ terminal' = "closed"
    /\ writerReady' = FALSE
    /\ UNCHANGED <<wlVars, pc, doUpload, cnt, scanVars, portVars, ioVars>>
    /\ UNCHANGED <<exitCode, fnVars, operations>>

\* (mutant) the wait given up one check later
GivesUpLate(c) == c > 50

\* waitForTerminal: cnt++ >= 50, on the value of cnt before the increment
GivesUp(c) == c >= 50

\* waitForTerminal: while (!writerReady) is left, return true
WaitTerminalReady ==
    /\ pc = "waitTerminal"
    /\ writerReady
    /\ cnt' = 0
    /\ pc' = "inputs"
    /\ UNCHANGED <<wlVars, doUpload, writerReady, terminal, scanVars, portVars,
                   ioVars>>
    /\ UNCHANGED <<exitCode, fnVars, operations>>

\* waitForTerminal: cnt++ < 50, sleep 100 ms
WaitTerminalSleep ==
    /\ pc = "waitTerminal"
    /\ ~writerReady
    /\ ~GivesUp(cnt)
    /\ cnt' = cnt + 1
    /\ UNCHANGED <<wlVars, pc, doUpload, writerReady, terminal, scanVars,
                   portVars, ioVars>>
    /\ UNCHANGED <<exitCode, fnVars, operations>>

\* waitForTerminal: cnt++ >= 50, return false; doOperation reports and goes on
WaitTerminalGiveUp ==
    /\ pc = "waitTerminal"
    /\ ~writerReady
    /\ GivesUp(cnt)
    /\ cnt' = 0
    /\ Emit("ERR_TERMINAL")
    /\ pc' = "inputs"
    /\ UNCHANGED <<wlVars, doUpload, writerReady, terminal, scanVars, portVars,
                   imageFile, totalSize, files, calls>>
    /\ UNCHANGED <<exitCode, fnVars, operations>>

\* an early return before the partition file is read: no data folder, not
\* an ESP32 board, no partition scheme, partition file missing
InputRejected ==
    /\ pc = "inputs"
    /\ \E why \in {"ERR_NO_DATA_FOLDER", "ERR_NOT_ESP32",
                   "ERR_NO_PARTITIONS", "ERR_PARTITION_FILE_MISSING"} : Emit(why)
    /\ pc' = "done"
    /\ UNCHANGED <<wlVars, doUpload, termVars, scanVars, portVars, imageFile,
                   totalSize, files, calls>>
    /\ UNCHANGED <<exitCode, fnVars, operations>>

\* every check before the partition file is read has passed
PartitionFileFound ==
    /\ pc = "inputs"
    /\ pc' = "readPartitions"
    /\ UNCHANGED <<wlVars, doUpload, termVars, scanVars, portVars, ioVars>>
    /\ UNCHANGED <<exitCode, fnVars, operations>>

\* the partition file is read and scanned; no FAT entry: return
PartitionsScanned ==
    /\ pc = "readPartitions"
    /\ \E text \in PartitionFiles :
        LET st == ScanPartitions(text) IN
        /\ partitionData' = text
        /\ lastend' = st.lastend
        /\ fsStart' = st.fsStart
        /\ fsEnd' = st.fsEnd
        /\ IF FatNotFound(st.fsStart, st.fsEnd)
           THEN Emit("ERR_FAT_NOT_FOUND") /\ pc' = "done"
           ELSE out' = out /\ pc' = "port"
    /\ UNCHANGED <<wlVars, doUpload, termVars, portVars, imageFile, totalSize,
                   files, calls>>
    /\ UNCHANGED <<exitCode, fnVars, operations>>

\* port.address is read; undefined on an upload: the input box is shown
PortAddressRead ==
    /\ pc = "port"
    /\ partitionData' = <<>>
    /\ lastend' = Num(FirstPartitionOffset)
    /\ \/ \E address \in PortAddresses :
            /\ serialPort' = address
            /\ pc' = "protocol"
       \/ /\ serialPort' = <<>>
          /\ pc' = IF doUpload THEN "promptPort" ELSE "protocol"
    /\ UNCHANGED <<wlVars, doUpload, termVars, fsStart, fsEnd, network,
                   networkPort, ioVars>>
    /\ UNCHANGED <<exitCode, fnVars, operations>>

\* the input box is answered
ManualPortEntered ==
    /\ pc = "promptPort"
    /\ \E entry \in ManualEntries :
        IF ~entry.given \/ entry.text = <<>>
        THEN /\ Emit("ERR_NO_PORT")
             /\ pc' = "done"
             /\ serialPort' = serialPort
        ELSE /\ out' = out
             /\ pc' = "protocol"
             /\ serialPort' = Trim(entry.text)
    /\ UNCHANGED <<wlVars, doUpload, termVars, scanVars, network, networkPort,
                   imageFile, totalSize, files, calls>>
    /\ UNCHANGED <<exitCode, fnVars, operations>>

\* port.protocol is read: a network port without a port number, or no
\* usable port on an upload: return
ProtocolRejected ==
    /\ pc = "protocol"
    /\ \/ Emit("ERR_NETWORK_PORT")
       \/ /\ serialPort = <<>>
          /\ doUpload
          /\ Emit("ERR_UNKNOWN_METHOD")
    /\ pc' = "done"
    /\ UNCHANGED <<wlVars, doUpload, termVars, scanVars, portVars, imageFile,
                   totalSize, files, calls>>
    /\ UNCHANGED <<exitCode, fnVars, operations>>

\* (mutant) the generator given the size of the whole partition
MkfatfsCallFullSize(flashSize, rawImageFile) ==
    [tool |-> "mkfatfs", size |-> NumSub(fsEnd, fsStart).val,
     file |-> rawImageFile,
     hasOffset |-> FALSE, offset |-> Num(0), address |-> <<>>, port |-> 0]

\* the mkfatfs invocation: String(wlLayout.flashSize) and rawImageFile
MkfatfsCall(flashSize, rawImageFile) ==
    [tool |-> "mkfatfs", size |-> flashSize, file |-> rawImageFile,
     hasOffset |-> FALSE, offset |-> Num(0), address |-> <<>>, port |-> 0]

\* port.protocol is accepted; the image path, the layout and the build
\* options are computed, the data folder is listed, mkfatfs is spawned
BuildStarted ==
    /\ pc = "protocol"
    /\ \/ \E np \in NetPortChoices \ {0} : network' = TRUE /\ networkPort' = np
       \/ network' = FALSE /\ networkPort' = 0
       \/ ~(serialPort = <<>> /\ doUpload) /\ network' = FALSE /\ networkPort' = 0
    /\ LET image  == IF doUpload THEN TempImage ELSE SketchImage
           fsSize == NumSub(fsEnd, fsStart).val
           layout == calculateWLLayout(fsSize, DefaultSectorSize)
       IN  /\ imageFile' = image
           /\ partitionSize' = fsSize
           /\ sectorSize' = DefaultSectorSize
           /\ wlLayout' = layout
           /\ \E total \in DataSizes(layout.flashSize) :
                /\ totalSize' = total
                /\ out' = IF DataExceeds(total, layout.flashSize)
                          THEN Append(out, "WARN_DATA_SIZE") ELSE out
           /\ calls' = Append(calls, MkfatfsCall(layout.flashSize, RawOf(image)))
    /\ pc' = "mkfatfs"
    /\ UNCHANGED <<fatImage, wlResult, doUpload, termVars, scanVars, serialPort,
                   files>>
    /\ UNCHANGED <<exitCode, fnVars, operations>>

\* the try block behind a successful mkfatfs run: read the raw image, wrap
\* it (result, None when the read has thrown), write the final image;
\* unlink the raw image on both ways out
AddWLLayer(fs, image, result, writeOk) ==
    LET raw == RawOf(image) IN
    IF ~fs[raw].exists
    THEN [failed |-> TRUE, wrapped |-> FALSE, files |-> Unlink(fs, raw)]
    ELSE IF result.threw \/ ~writeOk
    THEN [failed |-> TRUE, wrapped |-> TRUE, files |-> Unlink(fs, raw)]
    ELSE [failed |-> FALSE, wrapped |-> TRUE,
          files |-> Unlink(WriteFile(fs, image, result.image), raw)]

\* (mutant) the raw image handed to the upload tool
UploadCallRawImage ==
    IF network
    THEN [tool |-> "espota", size |-> 0, file |-> RawOf(imageFile),
          hasOffset |-> FALSE, offset |-> Num(0), address |-> serialPort,
          port |-> networkPort]
    ELSE [tool |-> "esptool", size |-> 0, file |-> RawOf(imageFile),
          hasOffset |-> TRUE, offset |-> fsStart, address |-> serialPort,
          port |-> 0]

\* the upload invocation: espota for a network port, esptool otherwise
UploadCall ==
    IF network
    THEN [tool |-> "espota", size |-> 0, file |-> imageFile,
          hasOffset |-> FALSE, offset |-> Num(0), address |-> serialPort,
          port |-> networkPort]
    ELSE [tool |-> "esptool", size |-> 0, file |-> imageFile,
          hasOffset |-> TRUE, offset |-> fsStart, address |-> serialPort,
          port |-> 0]

\* (mutant) every operation goes on to the upload
UploadFollowsAlways(upload) == TRUE

\* after the WL layer a build returns; only an upload goes on to the tool
UploadFollows(upload) == upload

\* mkfatfs has closed: on a truthy exit code return; else add the WL layer,
\* and return after a failure or a build, or spawn the upload tool
MkfatfsClosed ==
    /\ pc = "mkfatfs"
    /\ \E written \in GeneratorWrites(calls[Len(calls)].size) :
       \E files1 \in {IF written.exists
                      THEN WriteFile(files, RawOf(imageFile), written.data)
                      ELSE files} :
       \E result \in {IF files1[RawOf(imageFile)].exists
                      THEN wrapWithWearLeveling(files1[RawOf(imageFile)].data,
                                                partitionSize, DefaultSectorSize)
                      ELSE None} :
       \E exit \in ExitCodes, writeOk \in BOOLEAN :
       \E wl \in {AddWLLayer(files1, imageFile, result, writeOk)} :
         /\ exitCode' = exit
         /\ IF ExitTruthy(exit)
            THEN /\ Emit("ERR_MKFATFS")
                 /\ files' = files1
                 /\ pc' = "done"
                 /\ UNCHANGED <<fatImage, wlResult, calls>>
            ELSE /\ files' = wl.files
                 /\ fatImage' = IF wl.wrapped
                                THEN files1[RawOf(imageFile)].data ELSE fatImage
                 /\ wlResult' = IF wl.wrapped THEN result ELSE wlResult
                 /\ IF wl.failed
                    THEN /\ Emit("ERR_WL_LAYER")
                         /\ pc' = "done"
                         /\ calls' = calls
                    ELSE IF ~UploadFollows(doUpload)
                    THEN /\ out' = out \o <<"WL_LAYER_ADDED", "BUILD_COMPLETED">>
                         /\ pc' = "done"
                         /\ calls' = calls
                    ELSE /\ Emit("WL_LAYER_ADDED")
                         /\ pc' = "upload"
                         /\ calls' = Append(calls, UploadCall)
    /\ UNCHANGED <<partitionSize, sectorSize, wlLayout, doUpload, termVars,
                   scanVars, portVars, imageFile, totalSize>>
    /\ UNCHANGED <<fnVars, operations>>

\* the upload tool has closed
UploadClosed ==
    /\ pc = "upload"
    /\ \E exit \in ExitCodes :
        /\ exitCode' = exit
        /\ Emit(IF ExitTruthy(exit) THEN "ERR_UPLOAD" ELSE "UPLOAD_COMPLETED")
    /\ pc' = "done"
    /\ UNCHANGED <<wlVars, doUpload, termVars, scanVars, portVars, imageFile,
                   totalSize, files, calls>>
    /\ UNCHANGED <<fnVars, operations>>

Next ==
    \/ CommandWithoutBoard
    \/ CommandStarts
    \/ PtyOpen
    \/ PtyClose
    \/ WaitTerminalReady
    \/ WaitTerminalSleep
    \/ WaitTerminalGiveUp
    \/ InputRejected
    \/ PartitionFileFound
    \/ PartitionsScanned
    \/ PortAddressRead
    \/ ManualPortEntered
    \/ ProtocolRejected
    \/ BuildStarted
    \/ MkfatfsClosed
    \/ UploadClosed

Spec == Init /\ [][Next]_vars

(***************************************************************************)
(* One command up to the return of waitForTerminal (SpecWait).  The timer  *)
(* of each 100 ms sleep fires and the loop goes on: the checks of the loop *)
(* are weakly fair.  The pty callbacks come in any order, or never.        *)
(***************************************************************************)
WaitTerminalCheck ==
    WaitTerminalReady \/ WaitTerminalSleep \/ WaitTerminalGiveUp

NextWait ==
    \/ CommandStarts
    \/ PtyOpen
    \/ PtyClose
    \/ WaitTerminalReady
    \/ WaitTerminalSleep
    \/ WaitTerminalGiveUp

SpecWait == Init /\ [][NextWait]_vars /\ WF_vars(WaitTerminalCheck)

(***************************************************************************)
(* Two build commands on one sketch (SpecOverlap).  The command handlers   *)
(* call doOperation without awaiting it, so a second build can be started  *)
(* while the first waits for its mkfatfs process.  Both operations have    *)
(* passed the same checks on the same sketch and board and share           *)
(* imageFile = <sketch>/mkfatfs.bin and its ".raw" file; the code between  *)
(* two awaits runs without interruption, the mkfatfs processes run beside  *)
(* it.  A process writes its output file in one step, and writeFileSync    *)
(* succeeds.                                                               *)
(***************************************************************************)
\* the partition table of the sketch's board: one FAT partition of 20K
OverlapTable ==
    <<"n", ",", "d", ",", "f", "a", "t", ",", "0", "x", "9", "0", "0", "0", ",", "2", "0", "K">>

\* what the mkfatfs process of command k may leave at the raw image path:
\* nothing, or an image of its own content, complete or one byte short
OverlapWrites(k, flashSize) ==
    {NoFile} \cup
    {[exists |-> TRUE, data |-> RawPattern(k, n)] :
        n \in {m \in {flashSize - 1, flashSize} : m >= 0}}

InitOverlap ==
    /\ pc = "overlap"
    /\ operations = [k \in Commands |-> NoOperation]
    /\ doUpload = FALSE
    /\ terminal = "open"
    /\ writerReady = TRUE
    /\ cnt = 0
    /\ partitionData = <<>>
    /\ lastend = Num(FirstPartitionOffset)
    /\ fsStart = ScanPartitions(OverlapTable).fsStart
    /\ fsEnd = ScanPartitions(OverlapTable).fsEnd
    /\ serialPort = <<>>
    /\ network = FALSE
    /\ networkPort = 0
    /\ imageFile = SketchImage
    /\ totalSize = 0
    /\ files = [p \in Paths |-> IF p = SketchImage THEN OldImage ELSE NoFile]
    /\ calls = <<>>
    /\ out = <<>>
    /\ partitionSize = NumSub(fsEnd, fsStart).val
    /\ sectorSize = DefaultSectorSize
    /\ fatImage = <<>>
    /\ wlLayout = calculateWLLayout(partitionSize, DefaultSectorSize)
    /\ wlResult = None
    /\ exitCode = None
    /\ FnQuiet

\* the build command is invoked: its handler calls doOperation(.., false)
\* and returns; doOperation runs up to its await of runCommand(mkfatfs)
BuildCommand(k) ==
    /\ pc = "overlap"
    /\ operations[k].pc = "idle"
    /\ operations' = [operations EXCEPT ![k].pc = "mkfatfs"]
    /\ calls' = Append(calls, MkfatfsCall(wlLayout.flashSize, RawOf(imageFile)))
    /\ UNCHANGED <<wlVars, pc, doUpload, termVars, scanVars, portVars,
                   imageFile, totalSize, files, out>>
    /\ UNCHANGED <<exitCode, fnVars>>

\* the mkfatfs process spawned for command k writes its output file and
\* exits; its 'close' event is now pending
MkfatfsExits(k) ==
    /\ operations[k].pc = "mkfatfs"
    /\ \E written \in OverlapWrites(k, wlLayout.flashSize) :
       \E exit \in {ExitOk, ExitError} :
         /\ files' = IF written.exists
                     THEN WriteFile(files, RawOf(imageFile), written.data)
                     ELSE files
         /\ operations' = [operations EXCEPT ![k].pc = "closed",
                                             ![k].written = written,
                                             ![k].exitCode = exit]
    /\ UNCHANGED <<wlVars, pc, doUpload, termVars, scanVars, portVars,
                   imageFile, totalSize, calls, out>>
    /\ UNCHANGED <<exitCode, fnVars>>

\* the 'close' event of command k's mkfatfs resolves its runCommand:
\* doOperation k goes on to its end (a build returns after the WL layer)
BuildResumes(k) ==
    /\ operations[k].pc = "closed"
    /\ \E raw \in {files[RawOf(imageFile)]} :
       \E result \in {IF raw.exists
                      THEN wrapWithWearLeveling(raw.data, partitionSize,
                                                DefaultSectorSize)
                      ELSE None} :
       \E wl \in {AddWLLayer(files, imageFile, result, TRUE)} :
         IF ExitTruthy(operations[k].exitCode)
         THEN /\ operations' = [operations EXCEPT ![k].pc = "done",
                                                  ![k].out = "ERR_MKFATFS"]
              /\ UNCHANGED files
         ELSE /\ operations' =
                    [operations EXCEPT
                        ![k].pc = "done",
                        ![k].rawData = raw,
                        ![k].out = IF wl.failed THEN "ERR_WL_LAYER"
                                   ELSE "BUILD_COMPLETED"]
              /\ files' = wl.files
    /\ UNCHANGED <<wlVars, pc, doUpload, termVars, scanVars, portVars,
                   imageFile, totalSize, calls, out>>
    /\ UNCHANGED <<exitCode, fnVars>>

NextOverlap ==
    \E k \in Commands :
        \/ BuildCommand(k)
        \/ MkfatfsExits(k)
        \/ BuildResumes(k)

SpecOverlap == InitOverlap /\ [][NextOverlap]_vars

(***************************************************************************)
(* Properties of the partition scan (SpecScan).                            *)
(***************************************************************************)
HasFiveFields(entry) == Len(entry) > 4

\* the rows of a table: its lines, comments stripped, that have 5 or more fields
TableRows(text) ==
    LET lines == Split(text, LF) IN
    SelectSeq(SubSeq([i \in 1..Len(lines) |-> Split(StripComment(lines[i]), ",")],
                     1, Len(lines)),
              HasFiveFields)

IsFatRow(entry) == Trim(ToUpperCase(entry[3])) = <<"F", "A", "T">>

HasFatRow(rows) == \E k \in 1..Len(rows) : IsFatRow(rows[k])

LastFatRow(rows) ==
    CHOOSE k \in 1..Len(rows) :
        IsFatRow(rows[k]) /\ \A j \in (k + 1)..Len(rows) : ~IsFatRow(rows[j])

RowSize(rows, k) == fancyParseInt(rows[k][5])

RECURSIVE ResolvedOffset(_, _)

\* the offset a row resolves to: its own when not 0, else the end of the row
\* before it (the first row: the first partition offset)
ResolvedOffset(rows, k) ==
    LET own == fancyParseInt(rows[k][4]) IN
    IF ~IsZero(own) THEN own
    ELSE IF k = 1 THEN Num(FirstPartitionOffset)
    ELSE NumAdd(ResolvedOffset(rows, k - 1), RowSize(rows, k - 1))

ScanReturned == pc \in {"found", "notfound"}

LastOut == IF out = <<>> THEN "" ELSE out[Len(out)]

\* C2: when the partition table read has no FAT row, doOperation emits the
\* 'FAT partition entry not found' error and returns, with no tool invoked and
\* no file written; once returned it takes no further step (no retry).
C2_NoFatRowNotFound ==
    [][/\ pc = "readPartitions" /\ ~HasFatRow(TableRows(partitionData'))
          => /\ pc' = "done"
             /\ out' = Append(out, "ERR_FAT_NOT_FOUND")
             /\ calls' = <<>>
             /\ files' = files
             /\ wlResult' = None
       /\ pc = "done" => UNCHANGED vars]_vars

\* a table with rows, none of them a FAT row, has been scanned and
\* doOperation has returned
C2_Witness ==
    /\ pc = "done"
    /\ Len(TableRows(partitionData)) = 2
    /\ ~HasFatRow(TableRows(partitionData))
    /\ LastOut = "ERR_FAT_NOT_FOUND"
    /\ calls = <<>>

\* the file at the final image path before the run
InitialFile(path) == IF path = SketchImage THEN OldImage ELSE NoFile

\* C5: whenever wrapWithWearLeveling has been called with a raw image whose
\* length differs from the layout's flashSize it has thrown SizeMismatch and
\* returned no buffer; doOperation has then reported the failure and returned,
\* the final image file is not written and no upload tool is invoked.
C5_SizeMismatchRejected ==
    wlResult # None /\ Len(fatImage) # wlLayout.flashSize =>
        /\ wlResult.threw
        /\ wlResult.error = "SizeMismatch"
        /\ wlResult.image = <<>>
        /\ pc = "done"
        /\ LastOut = "ERR_WL_LAYER"
        /\ files[imageFile] = InitialFile(imageFile)
        /\ \A i \in 1..Len(calls) : calls[i].tool = "mkfatfs"

\* an upload run whose generator left one byte less than flashSize has been
\* rejected
C5_Witness ==
    /\ pc = "done"
    /\ doUpload
    /\ wlResult # None
    /\ wlLayout.flashSize > 0
    /\ Len(fatImage) = wlLayout.flashSize - 1
    /\ wlResult.threw

\* the build has got as far as computing the layout
LayoutComputed == wlLayout # None

OutHas(msg) == \E i \in 1..Len(out) : out[i] = msg

CallsOf(tool) == {i \in 1..Len(calls) : calls[i].tool = tool}

\* C11 as stated: whenever the usable size computed for the FAT partition is
\* zero or negative, doOperation has aborted without invoking the raw-image
\* generator; no generator call carries a size that is not positive.
C11_NonPositiveFlashSizeAborts ==
    /\ LayoutComputed /\ wlLayout.flashSize <= 0 => pc = "done" /\ calls = <<>>
    /\ \A i \in CallsOf("mkfatfs") : calls[i].size > 0

\* C12 as stated: whenever the data folder holds more bytes than the usable
\* size, doOperation has stopped without invoking the raw-image generator.
C12_OversizedDataAborts ==
    LayoutComputed /\ totalSize > wlLayout.flashSize =>
        pc = "done" /\ calls = <<>>

\* C12 (amended): the data-size warning has been emitted exactly when the
\* data folder holds more bytes than the usable size, and the raw-image
\* generator has been invoked all the same: the excess alone stops nothing.
C12_OversizedDataWarned ==
    LayoutComputed =>
        /\ OutHas("WARN_DATA_SIZE") <=> totalSize > wlLayout.flashSize
        /\ calls # <<>>
        /\ calls[1].tool = "mkfatfs"

\* the data folder holds one byte more than a positive usable size and the
\* generator is running
C12_Witness ==
    /\ pc = "mkfatfs"
    /\ wlLayout.flashSize > 0
    /\ totalSize = wlLayout.flashSize + 1
    /\ OutHas("WARN_DATA_SIZE")
    /\ CallsOf("mkfatfs") = {1}

(***************************************************************************)
(* Properties of wlCrc32 (SpecCrc).                                        *)
(***************************************************************************)
CrcReturned == crcOut # None

\* 0xEDB88320 as its four bytes, least significant first
RefPolyBytes == <<32, 131, 184, 237>>

\* bit k (0 = least significant) of the polynomial
RefPolyBit(k) == (RefPolyBytes[(k \div 8) + 1] \div (2 ^ (k % 8))) % 2

\* one message bit through the reflected shift register
RefBitStep(acc, bit) ==
    LET feedback == (acc[1] + bit) % 2
    IN  SubSeq([i \in 1..32 |->
                  ((IF i < 32 THEN acc[i + 1] ELSE 0)
                     + feedback * RefPolyBit(i - 1)) % 2], 1, 32)

\* the eight bits of one message byte, least significant first
RefByteStep(acc, byte) ==
    LET a1 == RefBitStep(acc, byte % 2)
        a2 == RefBitStep(a1, (byte \div 2) % 2)
        a3 == RefBitStep(a2, (byte \div 4) % 2)
        a4 == RefBitStep(a3, (byte \div 8) % 2)
        a5 == RefBitStep(a4, (byte \div 16) % 2)
        a6 == RefBitStep(a5, (byte \div 32) % 2)
        a7 == RefBitStep(a6, (byte \div 64) % 2)
    IN  RefBitStep(a7, (byte \div 128) % 2)

\* the message bytes k, k+1, ... of buf through the register
RECURSIVE RefRegister(_, _, _)
RefRegister(buf, k, acc) ==
    IF k > Len(buf) \/ Len(acc) # 32
    THEN acc
    ELSE RefRegister(buf, k + 1, RefByteStep(acc, buf[k]))

BitNot(bits) == SubSeq([i \in 1..32 |-> 1 - bits[i]], 1, 32)

\* the conventional CRC-32: register preset to ones, result complemented
ConventionalCrc32(buf) ==
    BitNot(RefRegister(buf, 1, SubSeq([i \in 1..32 |-> 1], 1, 32)))

\* C13: wlCrc32 returns a 32-bit unsigned value, the bitwise complement of the
\* conventional CRC-32 (polynomial 0xEDB88320, seed 0xFFFFFFFF) of the same
\* bytes: 0xFFFFFFFF for the empty buffer, 0x340BC6D9 for "123456789".
C13_CrcUncomplemented ==
    CrcReturned =>
        /\ Len(crcOut) = 32
        /\ \A i \in 1..32 : crcOut[i] \in {0, 1}
        /\ crcOut = BitNot(ConventionalCrc32(crcBuf))
        /\ crcBuf = <<>> => Bits32LEBytes(crcOut) = <<255, 255, 255, 255>>
        /\ crcBuf = CheckString => Bits32LEBytes(crcOut) = <<217, 198, 11, 52>>

\* the CRC of "123456789" has been computed
C13_Witness == CrcReturned /\ crcBuf = CheckString

\* the byte values a position is changed to
CrcOtherBytes == {0, 1, 2, 4, 8, 16, 32, 64, 96, 97, 127, 128, 254, 255}

\* C14: changing exactly one byte of a buffer, its length kept, changes the
\* value wlCrc32 returns.
C14_SingleByteChangeDetected ==
    CrcReturned =>
        \A pos \in 1..Len(crcBuf) : \A b \in CrcOtherBytes \ {crcBuf[pos]} :
            wlCrc32([crcBuf EXCEPT ![pos] = b]) # crcOut

\* the CRC of a three-byte buffer has been computed
C14_Witness == CrcReturned /\ Len(crcBuf) = MaxCrcLen /\ crcBuf[2] = 97

(***************************************************************************)
(* Properties of fancyParseInt (SpecParse).                                *)
(***************************************************************************)
ParseReturned == parseOut # None

Contains(str, pat) ==
    \E i \in 1..Len(str) :
        i + Len(pat) - 1 <= Len(str) /\ SubSeq(str, i, i + Len(pat) - 1) = pat

\* the part of str before the first occurrence of the character ch
PrefixBefore(str, ch) ==
    LET first == CHOOSE i \in 1..Len(str) :
                    str[i] = ch /\ \A j \in 1..(i - 1) : str[j] # ch
    IN  SubSeq(str, 1, first - 1)

LowerDigits ==
    <<"0", "1", "2", "3", "4", "5", "6", "7", "8", "9", "a", "b", "c", "d", "e", "f">>

UpperDigits ==
    <<"0", "1", "2", "3", "4", "5", "6", "7", "8", "9", "A", "B", "C", "D", "E", "F">>

IsDigitIn(ch, base) ==
    \E v \in 0..(base - 1) : ch = LowerDigits[v + 1] \/ ch = UpperDigits[v + 1]

ValueOfDigit(ch) ==
    CHOOSE v \in 0..15 : ch = LowerDigits[v + 1] \/ ch = UpperDigits[v + 1]

RECURSIVE Power(_, _)
Power(base, n) == IF n = 0 THEN 1 ELSE base * Power(base, n - 1)

RECURSIVE PositionalSum(_, _, _)
PositionalSum(digits, base, i) ==
    IF i > Len(digits) THEN 0
    ELSE ValueOfDigit(digits[i]) * Power(base, Len(digits) - i)
           + PositionalSum(digits, base, i + 1)

\* the number written by the longest run of base-b digits that starts str,
\* after white space, a sign and (base 16) an optional 0x; NaN without a digit
LeadingNumber(str, base) ==
    LET blanks   == CHOOSE n \in 0..Len(str) :
                       /\ \A i \in 1..n : str[i] \in {" ", "\t", LF, CR}
                       /\ n < Len(str) => str[n + 1] \notin {" ", "\t", LF, CR}
        rest     == SubSeq(str, blanks + 1, Len(str))
        signed   == rest # <<>> /\ rest[1] \in {"+", "-"}
        unsigned == IF signed THEN Tail(rest) ELSE rest
        marked   == /\ base = 16
                    /\ Len(unsigned) >= 2
                    /\ unsigned[1] = "0"
                    /\ unsigned[2] \in {"x", "X"}
        body     == IF marked THEN SubSeq(unsigned, 3, Len(unsigned)) ELSE unsigned
        run      == CHOOSE n \in 0..Len(body) :
                       /\ \A i \in 1..n : IsDigitIn(body[i], base)
                       /\ n < Len(body) => ~IsDigitIn(body[n + 1], base)
        value    == PositionalSum(SubSeq(body, 1, run), base, 1)
    IN  IF run = 0 THEN NaN
        ELSE IF signed /\ rest[1] = "-" THEN Num(-value) ELSE Num(value)

\* the value the claim gives a token
ExpectedValue(str) ==
    LET up == Trim(ToUpperCase(str)) IN
    IF up = <<>> THEN Num(0)
    ELSE IF Contains(up, <<"0", "X">>) THEN LeadingNumber(str, 16)
    ELSE IF Contains(up, <<"K">>)
         THEN NumTimes(1024, LeadingNumber(PrefixBefore(up, "K"), 10))
    ELSE IF Contains(up, <<"M">>)
         THEN NumTimes(1048576, LeadingNumber(PrefixBefore(up, "M"), 10))
    ELSE LeadingNumber(str, 10)

\* the values the claim names
NamedValues ==
    {<< <<"0", "x", "9", "0", "0", "0">>, 36864 >>,
     << <<"1", "6", "K">>, 16384 >>,
     << <<"4", "M">>, 4194304 >>,
     << <<>>, 0 >>,
     << <<"1", "0", "0", "0">>, 1000 >>,
     << <<"1", "6", "k">>, 16384 >>,
     << <<"4", "m">>, 4194304 >>}

\* C15: fancyParseInt tests the trimmed, uppercased token in this order:
\* empty gives 0; "0X" inside gives the hexadecimal value of the original
\* string; "K" inside gives 1024 times the decimal prefix before the first K;
\* "M" inside gives 1048576 times the decimal prefix before the first M;
\* otherwise the decimal value.  "0x9000" gives 36864, "16K" and "16k" 16384,
\* "4M" and "4m" 4194304, "" 0 and "1000" 1000.
C15_FancyParseIntCases ==
    ParseReturned =>
        /\ parseOut = ExpectedValue(parseStr)
        /\ \A named \in NamedValues :
              parseStr = named[1] => parseOut = Num(named[2])

\* a token with both a hex marker and a unit suffix, padded with white space,
\* has been parsed as hexadecimal
C15_Witness ==
    /\ ParseReturned
    /\ parseStr = <<" ", "0", "x", "1", "K", CR>>
    /\ parseOut = Num(1)

\* a literal with both a hex marker and a unit suffix
AmbiguousLiteral(token) ==
    LET up == ToUpperCase(token) IN
    /\ Contains(up, <<"0", "X">>)
    /\ Contains(up, <<"K">>) \/ Contains(up, <<"M">>)

HasAmbiguousLiteral(rows) ==
    \E k \in 1..Len(rows) :
        AmbiguousLiteral(rows[k][4]) \/ AmbiguousLiteral(rows[k][5])

\* C16 as stated: when a row of the partition table read has an offset or a
\* size with both a hex marker and a unit suffix, doOperation gives it no
\* value: it returns there, before any tool is invoked.
C16_AmbiguousLiteralAborts ==
    [][pc = "readPartitions" /\ HasAmbiguousLiteral(TableRows(partitionData'))
          => pc' = "done" /\ calls' = <<>>]_vars

HasUnparsableField(rows) ==
    \E k \in 1..Len(rows) :
        fancyParseInt(rows[k][4]).nan \/ fancyParseInt(rows[k][5]).nan

\* C17 as stated: when a row of the partition table read has an offset or a
\* size that parses to not-a-number, doOperation returns there, before any
\* tool is invoked, whatever the rows after it hold.
C17_UnparsableRowAborts ==
    [][pc = "readPartitions" /\ HasUnparsableField(TableRows(partitionData'))
          => pc' = "done" /\ calls' = <<>>]_vars

\* the usable size of a partition of p bytes with 4096-byte sectors: the
\* config sector and the two state regions at the tail, one dummy sector
UsableSize(p) ==
    LET stateRaw   == 64 + 4 * (p \div 4096)
        stateSize  == ((stateRaw + 4095) \div 4096) * 4096
        addrState1 == p - 4096 - 2 * stateSize
    IN  ((addrState1 \div 4096) - 1) * 4096

UploadCalls == CallsOf("esptool") \cup CallsOf("espota")

\* the file at the final image path is the assembled image: partitionSize
\* bytes, the raw image behind the dummy sector
FinalImageAssembled ==
    /\ files[imageFile].exists
    /\ ~wlResult.threw
    /\ files[imageFile].data = wlResult.image
    /\ Len(files[imageFile].data) = fsEnd.val - fsStart.val
    /\ SubSeq(files[imageFile].data, 4097, 4096 + Len(fatImage)) = fatImage

\* C19 as stated: every invocation of the flashing tool, serial or network,
\* passes the flash offset fsStart and the assembled image file.
C19_UploadOffsetAlways ==
    \A i \in UploadCalls :
        /\ calls[i].hasOffset
        /\ calls[i].offset = fsStart
        /\ calls[i].file = imageFile
        /\ FinalImageAssembled

\* C19 (amended): every invocation of the flashing tool passes the assembled
\* image file; the serial tool (esptool) is also passed the flash offset
\* fsStart, the network tool (espota) is passed no offset, only the address
\* and the port.
C19_UploadTarget ==
    \A i \in UploadCalls :
        /\ calls[i].file = imageFile
        /\ FinalImageAssembled
        /\ calls[i].tool = "esptool" =>
              calls[i].hasOffset /\ calls[i].offset = fsStart
        /\ calls[i].tool = "espota" =>
              /\ ~calls[i].hasOffset
              /\ calls[i].address = serialPort
              /\ calls[i].port = networkPort

\* espota is running with the assembled image of a 20480-byte partition
C19_Witness ==
    /\ pc = "upload"
    /\ CallsOf("espota") = {2}
    /\ Len(files[imageFile].data) = 20480
    /\ Len(fatImage) = 4096

\* C20 as stated: each tool is invoked at most once; the assembler has run
\* only if the generator exited with code 0; the flashing tool has been
\* invoked only if moreover the assembler returned and the final image is
\* written; and once the tool run last has not exited with code 0, nothing
\* follows it and no completion is announced.
C20_StopsAtFirstFailure ==
    /\ \A tool \in {"mkfatfs", "esptool", "espota"} :
          \A i, j \in CallsOf(tool) : i = j
    /\ wlResult # None /\ UploadCalls = {} => exitCode = ExitOk
    /\ pc = "upload" => exitCode = ExitOk
    /\ UploadCalls # {} => FinalImageAssembled
    /\ exitCode \in ExitCodes \ {ExitOk} =>
          /\ pc = "done"
          /\ UploadCalls = {} => wlResult = None
          /\ LastOut \notin {"BUILD_COMPLETED", "UPLOAD_COMPLETED", "WL_LAYER_ADDED"}

\* the generator has been run and the tool run last is still the generator
GeneratorRanLast == CallsOf("mkfatfs") # {} /\ (UploadCalls = {} \/ pc = "upload")

RECURSIVE FoldRows(_, _, _)

\* the left-to-right fold over rows k, k+1, ...: acc holds the cursor and the
\* FAT range recorded so far; an offset of 0 is replaced by the cursor, the
\* cursor becomes offset + size, a FAT row records its range
FoldRows(rows, k, acc) ==
    IF k > Len(rows) THEN acc
    ELSE LET own    == fancyParseInt(rows[k][4])
             offset == IF own = Num(0) THEN acc.cursor ELSE own
             after  == NumAdd(offset, RowSize(rows, k))
         IN  FoldRows(rows, k + 1,
                      IF IsFatRow(rows[k])
                      THEN [cursor |-> after, start |-> offset, end |-> after]
                      ELSE [acc EXCEPT !.cursor = after])

\* C23: offset resolution is one left-to-right fold over the rows that have 5
\* or more fields after stripping a '#' suffix (all other lines leave the
\* cursor as it is): the cursor starts at 0x8000 + 0xC00, an offset that
\* parses to 0 is replaced by the cursor, the cursor then becomes
\* offset + size, and only FAT rows change the recorded range; so the cursor
\* after the scan is the end of the last row, FAT or not.
C23_CursorFold ==
    LET rows == TableRows(partitionData)
        r    == FoldRows(rows, 1, [cursor |-> Num(32768 + 3072),
                                   start  |-> Num(0),
                                   end    |-> Num(0)])
    IN  ScanReturned =>
            /\ lastend = r.cursor
            /\ fsStart = r.start
            /\ fsEnd = r.end
            /\ rows = <<>> => lastend = Num(32768 + 3072)
            /\ rows # <<>> =>
                  lastend = NumAdd(ResolvedOffset(rows, Len(rows)),
                                   RowSize(rows, Len(rows)))

\* a line of four fields, a FAT row with the explicit offset 0 and a row
\* without offset have been scanned: the FAT range starts at the first
\* partition offset and the cursor has moved on past the row after it
C23_Witness ==
    LET rows == TableRows(partitionData) IN
    /\ pc = "found"
    /\ Len(Split(partitionData, LF)) = 3
    /\ Len(rows) = 2
    /\ ~HasFiveFields(Split(Split(partitionData, LF)[1], ","))
    /\ IsFatRow(rows[1]) /\ ~IsFatRow(rows[2])
    /\ fsStart = Num(35840)
    /\ fsEnd = Num(35840 + 20480)
    /\ lastend = Num(35840 + 20480 + 1048576)

\* C24: whenever the scan is accepted (the NotFound check is passed) the
\* range satisfies end > start, so the partition size fsEnd - fsStart is
\* strictly positive; a table whose last FAT row has the size 0 or an empty
\* size field is not accepted.
C24_AcceptedRangePositive ==
    LET rows == TableRows(partitionData) IN
    pc = "found" =>
        /\ ~fsStart.nan /\ ~fsEnd.nan
        /\ fsEnd.val > fsStart.val
        /\ fsEnd.val - fsStart.val > 0
        /\ HasFatRow(rows) => ~IsZero(RowSize(rows, LastFatRow(rows)))

\* C25: within one run the size requested from the generator and the size
\* the assembler demands are the same value, the flashSize of the layout of
\* fsEnd - fsStart: whenever the raw image read has exactly the requested
\* length, wrapWithWearLeveling has not thrown and its image, like the file
\* written from it, has length fsEnd - fsStart; it throws SizeMismatch only
\* when the generator left another length than requested.
C25_SizesAgree ==
    /\ \A i \in CallsOf("mkfatfs") :
          /\ LayoutComputed
          /\ calls[i].size = wlLayout.flashSize
          /\ partitionSize = fsEnd.val - fsStart.val
    /\ wlResult # None =>
          /\ Len(fatImage) = calls[1].size =>
                /\ ~wlResult.threw
                /\ Len(wlResult.image) = fsEnd.val - fsStart.val
                /\ files[imageFile] # InitialFile(imageFile) =>
                      Len(files[imageFile].data) = fsEnd.val - fsStart.val
          /\ wlResult.threw =>
                /\ wlResult.error = "SizeMismatch"
                /\ Len(fatImage) # calls[1].size

\* a build whose generator exited 0 with the 4096 bytes requested for a
\* 20480-byte partition has written an image of 20480 bytes
C25_Witness ==
    /\ pc = "done"
    /\ ~doUpload
    /\ exitCode = ExitOk
    /\ calls[1].size = 4096
    /\ Len(fatImage) = 4096
    /\ ~wlResult.threw
    /\ Len(files[imageFile].data) = 20480

\* C26: whenever wrapWithWearLeveling returns an image, the four written
\* regions (the raw image behind the dummy sector, the two 64-byte state
\* headers and the 36-byte config record) are pairwise disjoint and lie
\* inside [0, partitionSize): flashSize >= 0,
\* sectorSize + flashSize <= addrState1, addrState1 + 64 <= addrState2,
\* addrState2 + 64 <= addrCfg and addrCfg + 36 <= partitionSize, in an image
\* of partitionSize bytes.
C26_RegionsDisjoint ==
    wlResult # None /\ ~wlResult.threw =>
        /\ Len(wlResult.image) = partitionSize
        /\ Len(fatImage) = wlLayout.flashSize
        /\ wlLayout.flashSize >= 0
        /\ sectorSize >= 0
        /\ sectorSize + wlLayout.flashSize <= wlLayout.addrState1
        /\ wlLayout.addrState1 + 64 <= wlLayout.addrState2
        /\ wlLayout.addrState2 + 64 <= wlLayout.addrCfg
        /\ wlLayout.addrCfg + 36 <= partitionSize

\* an image has been returned for a partition that is not a whole number of
\* sectors: there is slack between the raw image and the first state header
C26_Witness ==
    /\ wlResult # None /\ ~wlResult.threw
    /\ wlLayout.flashSize > 0
    /\ partitionSize % sectorSize # 0
    /\ sectorSize + wlLayout.flashSize < wlLayout.addrState1

\* C27: a build-only operation never aborts because of the port state and
\* never prompts for a port: with doUpload false, every step taken from the
\* port section (port address read, prompt, protocol check) stays in the
\* port section or invokes the raw-image generator.
C27_BuildIgnoresPortState ==
    [][~doUpload /\ pc \in {"port", "promptPort", "protocol"} =>
          pc' \in {"protocol", "mkfatfs"}]_vars

\* C28: the intermediate raw image file never outlives the operation that
\* created it: once doOperation has ended after starting the generator, no
\* file exists at imageFile + ".raw".
C28_RawFileRemoved ==
    pc = "done" /\ CallsOf("mkfatfs") # {} =>
        ~files[RawOf(imageFile)].exists

\* C29: interleaved build operations on one sketch do not interfere: in
\* every interleaving, an operation whose own mkfatfs run exited 0 having
\* written a raw image of flashSize bytes ends with its assembly completed,
\* and the raw file it read was the one its own generator wrote (not a
\* missing one and not the other operation's).
C29_OverlapHarmless ==
    \A k \in Commands :
        /\ operations[k].pc = "done"
        /\ operations[k].exitCode = ExitOk
        /\ operations[k].written.exists
        /\ Len(operations[k].written.data) = wlLayout.flashSize
        => /\ operations[k].out = "BUILD_COMPLETED"
           /\ operations[k].rawData = operations[k].written

\* C30: waitForTerminal always terminates: a check of the loop that sees
\* writerReady true returns true at once; it returns false only at the 51st
\* check, after 50 sleeps that each followed a check seeing writerReady
\* false; it never makes more than 51 checks (cnt, the sleeps so far, never
\* exceeds 50); and whatever the order of the pty open and close callbacks,
\* a started wait is always followed by its return.
C30_WaitTerminates ==
    /\ [](pc = "waitTerminal" => cnt \in 0..50)
    /\ [][pc = "waitTerminal" /\ pc' # "waitTerminal" =>
            /\ pc' = "inputs"
            /\ \/ writerReady /\ out' = out
               \/ ~writerReady /\ cnt = 50 /\ out' = Append(out, "ERR_TERMINAL")]_vars
    /\ [][pc = "waitTerminal" /\ writerReady /\ writerReady' =>
            pc' = "inputs" /\ out' = out]_vars
    /\ [][pc = "waitTerminal" /\ pc' = "waitTerminal" /\ writerReady' = writerReady =>
            ~writerReady /\ cnt < 50 /\ cnt' = cnt + 1]_vars
    /\ (pc = "waitTerminal" ~> pc = "inputs")

\* the terminal was opened and closed again while the command waited, and
\* the wait has been given up
C30_Witness ==
    /\ pc = "inputs"
    /\ terminal = "closed"
    /\ ~writerReady
    /\ out = <<"ERR_TERMINAL">>

\* C21: the final image path is written only after the assembler has
\* completed without error: a file at the final path that differs from the
\* one before the run is the image wrapWithWearLeveling returned; after a
\* generator failure (an exit other than code 0), a raw file that could not
\* be read or a SizeMismatch the final path is as it was before the run; the
\* generator is only ever pointed at imageFile + ".raw", and no other path is
\* touched.
C21_FinalImageOnlyAfterAssembly ==
    /\ \A p \in Paths \ {imageFile, RawOf(imageFile)} :
          files[p] = InitialFile(p)
    /\ \A i \in CallsOf("mkfatfs") :
          calls[i].file = RawOf(imageFile) /\ calls[i].file # imageFile
    /\ imageFile # <<>> =>
          /\ files[imageFile] # InitialFile(imageFile) =>
                /\ wlResult # None
                /\ ~wlResult.threw
                /\ files[imageFile] = [exists |-> TRUE, data |-> wlResult.image]
          /\ GeneratorRanLast /\ exitCode \in ExitCodes \ {ExitOk} =>
                files[imageFile] = InitialFile(imageFile)
          /\ pc = "done" /\ wlResult = None /\ CallsOf("mkfatfs") # {} =>
                files[imageFile] = InitialFile(imageFile)
          /\ wlResult # None /\ wlResult.threw =>
                files[imageFile] = InitialFile(imageFile)

\* C22: a build-only operation never invokes the flashing tool: the upload
\* stage, an upload invocation and an upload message occur only when
\* doUpload is true; a build works on <sketch>/mkfatfs.bin and an upload on
\* the temp file; once a build's assembly has returned an image the
\* operation has ended, having written the image to <sketch>/mkfatfs.bin
\* and reported completion (or having failed to write the file).
C22_BuildOnlyNeverUploads ==
    /\ (\/ UploadCalls # {}
        \/ pc = "upload"
        \/ OutHas("UPLOAD_COMPLETED")
        \/ OutHas("ERR_UPLOAD")) => doUpload
    /\ imageFile # <<>> =>
          imageFile = IF doUpload THEN TempImage ELSE SketchImage
    /\ OutHas("BUILD_COMPLETED") =>
          /\ ~doUpload
          /\ pc = "done"
          /\ LastOut = "BUILD_COMPLETED"
          /\ FinalImageAssembled
    /\ ~doUpload /\ wlResult # None /\ ~wlResult.threw =>
          /\ pc = "done"
          /\ \/ /\ LastOut = "BUILD_COMPLETED"
                /\ files[SketchImage] = [exists |-> TRUE, data |-> wlResult.image]
             \/ /\ LastOut = "ERR_WL_LAYER"
                /\ files[SketchImage] = OldImage

\* a build for a network port that has a port number has completed with the
\* generator as its only tool invocation
C22_Witness ==
    /\ pc = "done"
    /\ ~doUpload
    /\ network
    /\ LastOut = "BUILD_COMPLETED"
    /\ Len(calls) = 1
    /\ files[SketchImage].data = wlResult.image

(***************************************************************************)
(* Properties of the layout calculator (SpecLayout).                       *)
(***************************************************************************)
LayoutReturned == wlLayout # None

\* C9: the state regions and the config region are anchored to the tail of
\* the partition: addrCfg + cfgSize = partitionSize, addrState2 + stateSize
\* = addrCfg, addrState1 + stateSize = addrState2; cfgSize and stateSize
\* are multiples of the sector size, cfgSize holds the 36-byte record and
\* stateSize holds the header plus 4 bytes per sector of the partition.
C9_LayoutTailAnchored ==
    LayoutReturned =>
        /\ wlLayout.addrCfg + wlLayout.cfgSize = partitionSize
        /\ wlLayout.addrState2 + wlLayout.stateSize = wlLayout.addrCfg
        /\ wlLayout.addrState1 + wlLayout.stateSize = wlLayout.addrState2
        /\ wlLayout.cfgSize % sectorSize = 0
        /\ wlLayout.stateSize % sectorSize = 0
        /\ wlLayout.cfgSize >= 36
        /\ wlLayout.stateSize >= 64 + 4 * (partitionSize \div sectorSize)

\* a layout whose state region needs more than one sector, on a partition
\* that is no whole number of sectors
C9_Witness ==
    /\ LayoutReturned
    /\ partitionSize % sectorSize # 0
    /\ wlLayout.stateSize > sectorSize
    /\ wlLayout.flashSize > 0

\* C10: the dummy sector: for 0x170000 and 4096 cfgSize is 4096 and
\* flashSize is partitionSize - 2*stateSize - cfgSize - sectorSize; for a
\* partition of whole sectors flashSize is one sector less than addrState1;
\* flashSize is always a multiple of the sector size below partitionSize.
C10_DummySectorReserved ==
    LayoutReturned =>
        /\ (partitionSize = 1507328 /\ sectorSize = 4096) =>
              /\ wlLayout.cfgSize = 4096
              /\ wlLayout.flashSize =
                    partitionSize - 2 * wlLayout.stateSize
                                  - wlLayout.cfgSize - sectorSize
        /\ (partitionSize % sectorSize = 0) =>
              wlLayout.flashSize = wlLayout.addrState1 - sectorSize
        /\ wlLayout.flashSize % sectorSize = 0
        /\ wlLayout.flashSize < partitionSize

C10_Witness ==
    /\ LayoutReturned
    /\ partitionSize = 1507328
    /\ sectorSize = 4096
    /\ wlLayout.flashSize = 1490944

(***************************************************************************)
(* Properties of the assembler (SpecWrap).                                 *)
(***************************************************************************)
WrapReturned == wlResult # None /\ ~wlResult.threw

\* byte offset o of the assembled image
ImageByte(o) == wlResult.image[o + 1]

\* the little-endian u32 at byte offset o of the assembled image is v
ImageU32Is(o, v) ==
    \A k \in 0..3 : ImageByte(o + k) = (v \div (256 ^ k)) % 256

\* the bytes [from, from + n) of the assembled image
ImageBytes(from, n) == SubSeq(wlResult.image, from + 1, from + n)

InRegion(o, from, n) == from <= o /\ o < from + n

\* C3: the raw image is found byte for byte at offset sectorSize.
C3_ContentPreserved ==
    WrapReturned =>
        /\ Len(fatImage) = wlLayout.flashSize
        /\ \A i \in 0..(Len(fatImage) - 1) :
              ImageByte(sectorSize + i) = fatImage[i + 1]

\* a non-constant payload of several sectors was wrapped
C3_Witness ==
    /\ WrapReturned
    /\ Len(fatImage) >= 2 * sectorSize
    /\ \E i, j \in 1..Len(fatImage) : fatImage[i] # fatImage[j]

\* C4: the image has partitionSize bytes and is 0xFF everywhere outside the
\* data region, the 36-byte config record and the two 64-byte state headers.
C4_FrameErased ==
    WrapReturned =>
        /\ Len(wlResult.image) = partitionSize
        /\ \A o \in 0..(partitionSize - 1) :
              \/ InRegion(o, sectorSize, wlLayout.flashSize)
              \/ InRegion(o, wlLayout.addrCfg, 36)
              \/ InRegion(o, wlLayout.addrState1, 64)
              \/ InRegion(o, wlLayout.addrState2, 64)
              \/ ImageByte(o) = 255

\* an image with a data region, whose state regions hold a position table
\* behind the header and whose config sector has bytes behind the record
C4_Witness ==
    /\ WrapReturned
    /\ wlLayout.flashSize > 0
    /\ wlLayout.stateSize > 64
    /\ wlLayout.cfgSize > 36
    /\ ImageByte(0) = 255
    /\ ImageByte(wlLayout.addrState1 + 64) = 255
    /\ ImageByte(wlLayout.addrCfg + 36) = 255

\* C6: the config record at addrCfg: nine little-endian u32 fields, the
\* last one the wlCrc32 of the 32 bytes before it.
C6_ConfigRecord ==
    WrapReturned =>
        /\ ImageU32Is(wlLayout.addrCfg + 0, 0)
        /\ ImageU32Is(wlLayout.addrCfg + 4, partitionSize)
        /\ ImageU32Is(wlLayout.addrCfg + 8, sectorSize)
        /\ ImageU32Is(wlLayout.addrCfg + 12, sectorSize)
        /\ ImageU32Is(wlLayout.addrCfg + 16, 16)
        /\ ImageU32Is(wlLayout.addrCfg + 20, 16)
        /\ ImageU32Is(wlLayout.addrCfg + 24, 2)
        /\ ImageU32Is(wlLayout.addrCfg + 28, 32)
        /\ ImageBytes(wlLayout.addrCfg + 32, 4) =
              Bits32LEBytes(wlCrc32(ImageBytes(wlLayout.addrCfg, 32)))

\* a record whose full_mem_size field uses more than one byte
C6_Witness ==
    /\ WrapReturned
    /\ partitionSize > 256
    /\ ImageByte(wlLayout.addrCfg + 5) # 0

\* C7: the two state headers are byte-identical.
C7_StateCopiesIdentical ==
    WrapReturned =>
        ImageBytes(wlLayout.addrState1, 64) = ImageBytes(wlLayout.addrState2, 64)

\* two headers at different addresses, neither of them erased flash
C7_Witness ==
    /\ WrapReturned
    /\ wlLayout.addrState1 + 64 <= wlLayout.addrState2
    /\ ImageBytes(wlLayout.addrState1, 64) # BufferAlloc(64, 255)

\* the fields of the state header at byte offset a
StateHeaderAt(a) ==
    /\ ImageU32Is(a + 0, 0)
    /\ ImageU32Is(a + 4, wlLayout.maxPos)
    /\ ImageU32Is(a + 4, (Len(fatImage) \div sectorSize) + 1)
    /\ ImageU32Is(a + 8, 0)
    /\ ImageU32Is(a + 12, 0)
    /\ ImageU32Is(a + 16, 16)
    /\ ImageU32Is(a + 20, sectorSize)
    /\ ImageU32Is(a + 24, 2)
    /\ ImageBytes(a + 28, 4) = ImageBytes(wlLayout.addrCfg + 32, 4)
    /\ ImageBytes(a + 28, 4) =
          Bits32LEBytes(wlCrc32(ImageBytes(wlLayout.addrCfg, 32)))
    /\ ImageBytes(a + 32, 28) = BufferAlloc(28, 0)
    /\ ImageBytes(a + 60, 4) = Bits32LEBytes(wlCrc32(ImageBytes(a, 60)))

\* C8: each state header: pos 0, max_pos = data sectors + 1, counters 0,
\* max_count 16, block_size = sectorSize, version 2, device_id = the crc
\* field of the config record, 28 zero bytes, crc of the first 60 bytes.
C8_StateHeader ==
    WrapReturned =>
        /\ StateHeaderAt(wlLayout.addrState1)
        /\ StateHeaderAt(wlLayout.addrState2)

\* a header with more than one data sector counted in max_pos
C8_Witness ==
    /\ WrapReturned
    /\ wlLayout.maxPos >= 3
    /\ ImageByte(wlLayout.addrState1 + 4) = wlLayout.maxPos

=============================================================================
